---- MODULE Spec2Model ----
(***************************************************************************)
(* Model of mi/instrument/kut/ek60/ooicore/zplsc_b.py: the scan loop of    *)
(* parse_echogram_file (block search for the sample signature, decode of   *)
(* one sample datagram by process_sample, ping aggregation) over an EK60   *)
(* *.raw file, preceded by the file-name check and read_header and         *)
(* followed by get_cal_params and power2Sv.                                *)
(*                                                                         *)
(* A file is modelled by its length and by the occurrences of the sample   *)
(* signature in it, each with the header fields process_sample would       *)
(* decode when seeking to 4 bytes before it.  Every other byte is opaque.  *)
(* File offsets are counted from the end of the configuration datagram,    *)
(* which is where read_header leaves the stream (line 355).                *)
(***************************************************************************)
EXTENDS Integers, Sequences, FiniteSets, TLC

VARIABLES
    source,                 \* the file's name and configuration datagram
    opened,                 \* history: open() was reached (line 346)
    transducer_count,       \* config_header['transducer_count'] (line 349)
    file,                   \* the bytes after the configuration datagram
    pc,                     \* "start" | "scan" | "done" (returned) |
                            \* "error" (raised)
    err,                    \* the exception that left parse_echogram_file
    position,               \* line 355 / 427
    last_time,              \* line 358
    sample_data_temp_dict,  \* line 359
    power_data_temp_dict,   \* line 360
    power_data_dict,        \* line 362
    data_times,             \* line 363
    particle_data,          \* line 356
    frequencies,            \* line 352
    bin_size,               \* line 353
    log,                    \* warnings handed to log.warn
    blocks,                 \* history: every block the loop searched
    decoded,                \* history: every call of process_sample
    pings,                  \* history: every ping found complete (line 394)
    result,                 \* the tuple returned at line 441
    cal_params,             \* the list returned by get_cal_params
    Sv                      \* the dict returned by power2Sv

vars == <<source, opened, transducer_count, file, pc, err, position,
          last_time, sample_data_temp_dict, power_data_temp_dict,
          power_data_dict, data_times, particle_data, frequencies, bin_size,
          log, blocks, decoded, pings, result, cal_params, Sv>>

\* What the scan loop never assigns.
outerVars == <<source, opened, cal_params, Sv>>

\* The aggregator's state: everything the scan loop keeps besides the
\* stream position.
aggVars == <<last_time, sample_data_temp_dict, power_data_temp_dict,
             power_data_dict, data_times, particle_data, frequencies,
             bin_size>>

----------------------------------------------------------------------------
\* Bounds of the model.

\* Largest configured transducer count.
MaxN == 2
\* Most signature occurrences in a file of the ping family.
MaxDgrams == 3
\* Timestamps are 1..MaxTime.
MaxTime == 2
\* Largest sample count of a datagram.
MaxCount == 2
\* Largest offset of the signature in a file of the offset family.
MaxOffset == 8200
\* Longest run of opaque bytes after the last datagram (short tails).
MaxTail == 6
\* Most pings of a power matrix handed to power2Sv.
MaxPings == 2
\* Entries of a pulse length table; pulse lengths are 0..MaxTau.
MaxTau == 2
\* Range samples of a ping whose range vector is examined.
MaxRange == 4
\* Sound velocities are -1..MaxSpeed.
MaxSpeed == 2
\* Absorption coefficients are 0..MaxAlpha.
MaxAlpha == 1

----------------------------------------------------------------------------
\* Program constants.

BLOCK_SIZE == 1024 * 4
\* LENGTH_SIZE of zplsc_echogram: the 4-byte length prefix.
LENGTH_SIZE == 4
\* Length of the byte signature SAMPLE_MATCHER looks for.
SIGNATURE_SIZE == 4
\* sample_dtype.itemsize: 4+4+4+4 +2+2 +12*4 +2+2 +4+4 +4+4.
SAMPLE_HEADER_SIZE == 88
\* power_dtype.itemsize
POWER_ITEM_SIZE == 2
\* angle_dtype.itemsize
ANGLE_ITEM_SIZE == 2
\* len_dtype.itemsize
LEN_ITEM_SIZE == 4
\* last_time = None
NoTime == 0

\* particle_data = None
NoParticle == [set |-> FALSE]
\* bin_size = None, frequencies[channel] = None
None == <<>>

Min(a, b) == IF a < b THEN a ELSE b
Max(a, b) == IF a > b THEN a ELSE b

\* A function that has not been called has returned nothing.
NotCalled == [called |-> FALSE]

----------------------------------------------------------------------------
\* The file name (lines 130-131, 278-288).

\* A path is a sequence of tokens: "OOI-D" and "x-D" (the characters -D
\* after OOI and after anything else), "d8" and "d7" (a run of exactly 8
\* and 7 digits), "-T", "d6" and "d5", ".raw", "xraw" (raw after a
\* character that is not a dot), "c" (any other character that is not
\* white space, the underscore included) and "sp" (white space).

\* FILE_NAME_REGEX after its leading \S*_* : OOI-D, 8 digits, -T, 6 digits,
\* .raw.
FILE_NAME_REGEX == <<"OOI-D", "d8", "-T", "d6", ".raw">>

\* The tokens of pat are the tokens of name from position k on.
TokensAt(name, k, pat) ==
    /\ k + Len(pat) - 1 <= Len(name)
    /\ SubSeq(name, k, k + Len(pat) - 1) = pat

\* FILE_NAME_MATCHER.match of an expression that ends after the date.
FileNameMatches_DateOnly(name) ==
    \E k \in 1..Len(name) :
        /\ \A i \in 1..(k - 1) : name[i] # "sp"
        /\ TokensAt(name, k, SubSeq(FILE_NAME_REGEX, 1, 2))

\* FILE_NAME_MATCHER.match(filepath) is not None (line 279): match anchors
\* the expression at the start of the path and not at its end, \S* takes
\* any run without white space.
FileNameMatches(name) ==
    \E k \in 1..Len(name) :
        /\ \A i \in 1..(k - 1) : name[i] # "sp"
        /\ TokensAt(name, k, FILE_NAME_REGEX)

----------------------------------------------------------------------------
\* The configuration datagram (read_header, lines 291-323).

\* DATAGRAM_HEADER_SIZE of zplsc_echogram: type tag and split timestamp.
DATAGRAM_HEADER_SIZE == 12
\* CONFIG_HEADER_SIZE of zplsc_echogram.
CONFIG_HEADER_SIZE == 516
\* CONFIG_TRANSDUCER_SIZE of zplsc_echogram.
CONFIG_TRANSDUCER_SIZE == 320

\* byte_cnt at line 315, after the header and N transducer blocks.
ByteCnt(N) ==
    LENGTH_SIZE + DATAGRAM_HEADER_SIZE + CONFIG_HEADER_SIZE
        + N * CONFIG_TRANSDUCER_SIZE

\* The bytes of raw (line 293) that belong to the configuration datagram;
\* src.cfg_bytes of them are in the file.
HeaderRawLen(src) == Min(BLOCK_SIZE, src.cfg_bytes)

\* Line 316 without the byte count: only the two length fields are compared.
ReadHeader_LengthsOnly(src, N) ==
    IF ByteCnt(N) + LENGTH_SIZE > HeaderRawLen(src)
    THEN "struct.error"
    ELSE IF ~(src.length1 = src.length2)
    THEN "InstrumentDataException"
    ELSE "ok"

\* read_header on a file whose header and transducer blocks are complete:
\* unpack_from at line 315 needs 4 bytes of raw at byte_cnt, line 316
\* compares the two length fields and the bytes consumed.
ReadHeader(src, N) ==
    IF ByteCnt(N) + LENGTH_SIZE > HeaderRawLen(src)
    THEN "struct.error"
    ELSE IF ~(src.length1 = src.length2
                /\ src.length2 = ByteCnt(N) - LENGTH_SIZE)
    THEN "InstrumentDataException"
    ELSE "ok"

\* A name and a configuration datagram as the instrument writes them.
GoodSource(N) ==
    [name |-> <<"c", "c", "OOI-D", "d8", "-T", "d6", ".raw">>,
     length1 |-> ByteCnt(N) - LENGTH_SIZE,
     length2 |-> ByteCnt(N) - LENGTH_SIZE,
     cfg_bytes |-> ByteCnt(N) + LENGTH_SIZE]

----------------------------------------------------------------------------
\* The stream.

\* One occurrence of the signature, at offset sig, with the fields a decode
\* at sig - LENGTH_SIZE reads: channel_number, count and mode as decoded,
\* time for the ntp time lines 219-220 compute from the two date words, and
\* lenok for whether the length field that ends the datagram equals
\* length1.  Counts are >= 0.
Cand(sig, channel, time, count, mode, lenok) ==
    [sig |-> sig, channel |-> channel, time |-> time, count |-> count,
     mode |-> mode, lenok |-> lenok]

\* Bytes of the datagram of candidate c as the instrument lays it out:
\* length prefix and sample_dtype header, count power_dtype samples, count
\* angle_dtype pairs when mode > 1, trailing length.
WireLen(c) ==
    SAMPLE_HEADER_SIZE + POWER_ITEM_SIZE * c.count
        + (IF c.mode > 1 THEN ANGLE_ITEM_SIZE * c.count ELSE 0)
        + LEN_ITEM_SIZE

\* A decode that does not read the angle array.
AngleBytes_NoAngles(c) == 0

\* Bytes of the angle array of a datagram (lines 228-229).
AngleBytes(c) == IF c.mode > 1 THEN ANGLE_ITEM_SIZE * c.count ELSE 0

\* Bytes process_sample consumes for the datagram of candidate c: header,
\* power array, angle array, trailing length (lines 205-236).
DgramLen(c) ==
    SAMPLE_HEADER_SIZE + POWER_ITEM_SIZE * c.count + AngleBytes(c)
        + LEN_ITEM_SIZE

\* Line 238: length2, read where the reads of lines 205-229 left the
\* stream, equals length1.  Read anywhere but at the end of the datagram
\* it is other data.
LengthsMatch(c) == c.lenok /\ DgramLen(c) = WireLen(c)

\* A stream that is back at the start of the datagram after the header was
\* read.
AfterHeader_Rewound(o) == o

\* The stream offset after line 205 read one sample_dtype item at o.
AfterHeader(o) == o + SAMPLE_HEADER_SIZE

\* len(raw) for raw = input_file.read(BLOCK_SIZE) at offset pos.
RawLen(pos) == Min(BLOCK_SIZE, Max(0, file.len - pos))

\* A loop that goes on while the block can hold the signature.
LoopCond_AtLeast4(pos) == RawLen(pos) >= 4

\* The loop condition of line 369.
LoopCond(pos) == RawLen(pos) > 4

\* SAMPLE_MATCHER.search(raw): the index in file.cands of the first
\* signature lying wholly inside the block read at pos, 0 when there is none.
Search(pos) ==
    LET hits == {i \in 1..Len(file.cands) :
                    /\ file.cands[i].sig >= pos
                    /\ file.cands[i].sig + SIGNATURE_SIZE <= pos + RawLen(pos)}
    IN IF hits = {} THEN 0
       ELSE CHOOSE i \in hits :
                \A j \in hits : file.cands[i].sig <= file.cands[j].sig

\* Lines 375-378: the offset the stream is sought to for the decode.
\* (Faulty variant: seeks to the signature itself, forgetting the prefix.)
MatchStart_NoPrefix(pos, i) == file.cands[i].sig
MatchStart(pos, i) == pos + ((file.cands[i].sig - pos) - LENGTH_SIZE)

\* Line 424: where a block without a match leaves the stream.
\* (Faulty variant: advances by a whole block, without the 4-byte overlap.)
MissSeek_FullBlock(pos) == pos + BLOCK_SIZE
MissSeek(pos) == pos + BLOCK_SIZE - 4

----------------------------------------------------------------------------
\* process_sample (lines 202-242).

\* Line 213.
\* (Faulty variant: checks the lower bound only.)
InvalidChannel_NoUpper(channel) == channel < 0
InvalidChannel(channel) == channel < 0 \/ channel > transducer_count

\* The power array read at line 225 from the datagram of candidate i:
\* count 16-bit samples, kept as (source datagram, number of samples).
PowerData(i) == [src |-> i, n |-> file.cands[i].count]

\* process_sample on the stream sought to MatchStart(pos, i).
\*   numpy.fromfile returns fewer items than asked when the file ends, so a
\*   header cut short leaves sample_data empty and line 206 raises
\*   IndexError; a body cut short leaves length2_data empty and line 237
\*   raises IndexError.  A mismatch of the two length fields only warns.
\* (ProcessSample_Strict is a faulty variant that rejects the datagram on a
\* mismatch instead of warning.)
ProcessSample_Strict(pos, i) ==
    LET c == file.cands[i]
        o == MatchStart(pos, i)
    IN IF o + SAMPLE_HEADER_SIZE > file.len
         THEN [outcome |-> "IndexError", tell |-> file.len, warn |-> <<>>]
       ELSE IF InvalidChannel(c.channel)
         THEN [outcome |-> "InvalidTransducer",
               tell |-> AfterHeader(o),
               warn |-> << <<"channel", i>> >>]
       ELSE IF o + DgramLen(c) > file.len
         THEN [outcome |-> "IndexError", tell |-> file.len, warn |-> <<>>]
       ELSE IF ~LengthsMatch(c)
         THEN [outcome |-> "InvalidTransducer", tell |-> o + DgramLen(c),
               warn |-> << <<"length", i>> >>]
       ELSE [outcome |-> "ok", tell |-> o + DgramLen(c), warn |-> <<>>,
             channel |-> c.channel, time |-> c.time,
             sample |-> i, power |-> PowerData(i)]
ProcessSample(pos, i) ==
    LET c == file.cands[i]
        o == MatchStart(pos, i)
    IN IF o + SAMPLE_HEADER_SIZE > file.len
         THEN [outcome |-> "IndexError", tell |-> file.len, warn |-> <<>>]
       ELSE IF InvalidChannel(c.channel)
         THEN [outcome |-> "InvalidTransducer",
               tell |-> AfterHeader(o),
               warn |-> << <<"channel", i>> >>]
       ELSE IF o + DgramLen(c) > file.len
         THEN [outcome |-> "IndexError", tell |-> file.len, warn |-> <<>>]
       ELSE [outcome |-> "ok", tell |-> o + DgramLen(c),
             warn |-> IF LengthsMatch(c) THEN <<>> ELSE << <<"length", i>> >>,
             channel |-> c.channel, time |-> c.time,
             sample |-> i, power |-> PowerData(i)]

----------------------------------------------------------------------------
\* Ping aggregation (lines 383-416).

\* d[k] = v on a dict.
Put(d, k, v) == [x \in (DOMAIN d) \cup {k} |-> IF x = k THEN v ELSE d[x]]

\* Iteration order of a dict keyed by small non-negative integers under the
\* interpreter the module is written for (hash(k) = k, open addressing):
\* ascending key order, whatever the insertion order.
RECURSIVE DictOrder(_)
DictOrder(S) ==
    IF S = {} THEN <<>>
    ELSE LET m == CHOOSE x \in S : \A y \in S : x <= y
         IN <<m>> \o DictOrder(S \ {m})

\* An aggregator that never restarts its maps.
TimeChanged_Never(next_time) == FALSE

\* Line 383.
TimeChanged(next_time) == next_time # last_time

\* Line 394.
PingComplete(sd, pd) ==
    /\ Cardinality(DOMAIN sd) = Cardinality(DOMAIN pd)
    /\ Cardinality(DOMAIN pd) = transducer_count

\* Line 397: "if not power_data_dict".
\* (Faulty variant: every complete ping is taken for the first.)
FirstPing_Always(pdd) == TRUE
FirstPing(pdd) == DOMAIN pdd = {}

\* The per-channel fields append_metadata copies from a sample (lines 190-198).
MetaKeys ==
    {"zplsc_transducer_depth", "zplsc_frequency", "zplsc_transmit_power",
     "zplsc_pulse_length", "zplsc_bandwidth", "zplsc_sample_interval",
     "zplsc_sound_velocity", "zplsc_absorption_coeff", "zplsc_temperature"}

\* The value of field key decoded from the datagram of candidate i.
SampleField(key, i) == <<key, i>>

\* Lines 399-402: first_ping_metadata after the loop over
\* sample_data_temp_dict.iteritems().
FirstPingMetadata(sd, order) ==
    [k \in MetaKeys \cup {"zplsc_channel"} |->
        [j \in 1..Len(order) |->
            IF k = "zplsc_channel" THEN order[j]
            ELSE SampleField(k, sd[order[j]])]]

\* Lines 404-405 over the whole loop.
FirstPingFrequencies(freqs, sd) ==
    [ch \in (DOMAIN freqs) \cup (DOMAIN sd) |->
        IF ch \in DOMAIN sd THEN SampleField("zplsc_frequency", sd[ch])
        ELSE freqs[ch]]

\* Lines 407-408: set from the first sample iterated, once.
FirstPingBinSize(bs, sd, order) ==
    IF bs = None /\ Len(order) > 0 THEN <<"bin_size", sd[order[1]]>> ELSE bs

\* Lines 415-416: the loop "for channel in power_data_temp_dict:
\* power_data_dict[channel].append(...)"; it stops with KeyError at the first
\* channel power_data_dict does not hold.
RECURSIVE AppendPowers(_, _, _)
AppendPowers(pdd, pd, order) ==
    IF order = <<>> THEN [dict |-> pdd, keyerror |-> FALSE]
    ELSE IF Head(order) \notin DOMAIN pdd
        THEN [dict |-> pdd, keyerror |-> TRUE]
    ELSE AppendPowers(
            [pdd EXCEPT ![Head(order)] = Append(@, pd[Head(order)])],
            pd, Tail(order))

\* Lines 383-416 for one decoded sample: the aggregator's next state.
Aggregate(s) ==
    LET changed == TimeChanged(s.time)
        sd == Put(IF changed THEN <<>> ELSE sample_data_temp_dict,
                  s.channel, s.sample)
        pd == Put(IF changed THEN <<>> ELSE power_data_temp_dict,
                  s.channel, s.power)
        lt == IF changed THEN s.time ELSE last_time
        complete == PingComplete(sd, pd)
        first == complete /\ FirstPing(power_data_dict)
        order == DictOrder(DOMAIN sd)
        pdd0 == IF first THEN [ch \in DOMAIN pd |-> <<>>] ELSE power_data_dict
        app == IF complete THEN AppendPowers(pdd0, pd, DictOrder(DOMAIN pd))
               ELSE [dict |-> pdd0, keyerror |-> FALSE]
    IN [last_time |-> lt,
        sample_data_temp_dict |-> sd,
        power_data_temp_dict |-> pd,
        power_data_dict |-> app.dict,
        data_times |-> IF complete THEN Append(data_times, s.time)
                       ELSE data_times,
        particle_data |->
            IF first
            THEN [set |-> TRUE, metadata |-> FirstPingMetadata(sd, order),
                  time |-> s.time]
            ELSE particle_data,
        frequencies |-> IF first THEN FirstPingFrequencies(frequencies, sd)
                        ELSE frequencies,
        bin_size |-> IF first THEN FirstPingBinSize(bin_size, sd, order)
                     ELSE bin_size,
        complete |-> complete,
        keyerror |-> app.keyerror]

----------------------------------------------------------------------------
\* The outputs (lines 431-441).

\* Line 433: ntp seconds to days, shifted by REF_TIME.
MplTime(t) == <<"days_since_REF_TIME", t>>

\* Line 438: one power sample decompressed to dB.
Db(x) == <<"dB", x>>

\* Lines 438-439: np.array of the list of power arrays, scaled and
\* transposed: [range sample][ping] when every ping has as many samples,
\* a one-dimensional array of arrays otherwise.
PowerMatrix(cols) ==
    IF \A p \in 1..Len(cols) : cols[p].n = cols[1].n
    THEN [shape |-> <<cols[1].n, Len(cols)>>,
          at |-> [r \in 1..cols[1].n |->
                    [p \in 1..Len(cols) |-> Db(<<cols[p].src, r>>)]]]
    ELSE [shape |-> <<Len(cols)>>,
          at |-> [p \in 1..Len(cols) |->
                    [r \in 1..cols[p].n |-> Db(<<cols[p].src, r>>)]]]

Outputs ==
    [particle_data |-> particle_data,
     data_times |-> [i \in 1..Len(data_times) |-> MplTime(data_times[i])],
     power_data_dict |->
        [ch \in DOMAIN power_data_dict |-> PowerMatrix(power_data_dict[ch])],
     frequencies |-> frequencies,
     bin_size |-> bin_size]

----------------------------------------------------------------------------
\* get_cal_params (lines 444-471).

\* config_transducer[ii][key], as read_header decoded it.
ConfigField(key, ii) == <<"config_transducer", ii, key>>

\* One entry of cal_params with the frequency taken from the first ping.
CalParamsEntry_PingFrequency(ii, metadata) ==
    [soundername |-> <<"config_header", "sounder_name">>,
     frequency |-> metadata["zplsc_frequency"][ii + 1],
     soundvelocity |-> metadata["zplsc_sound_velocity"][ii + 1],
     sampleinterval |-> metadata["zplsc_sample_interval"][ii + 1],
     absorptioncoefficient |-> metadata["zplsc_absorption_coeff"][ii + 1],
     gain |-> ConfigField("gain", ii),
     equivalentbeamangle |-> ConfigField("equiv_beam_angle", ii),
     pulselengthtable |-> ConfigField("pulse_length_table", ii),
     gaintable |-> ConfigField("gain_table", ii),
     sacorrectiontable |-> ConfigField("sa_correction_table", ii),
     transmitpower |-> metadata["zplsc_transmit_power"][ii + 1],
     pulselength |-> metadata["zplsc_pulse_length"][ii + 1],
     anglesensitivityalongship |->
        ConfigField("angle_sensitivity_alongship", ii),
     anglesensitivityathwartship |->
        ConfigField("angle_sensitivity_athwartship", ii),
     anglesoffsetalongship |-> ConfigField("angle_offset_alongship", ii),
     angleoffsetathwartship |-> ConfigField("angle_offset_athwart", ii),
     transducerdepth |-> metadata["zplsc_transducer_depth"][ii + 1]]

\* Lines 451-470: cal_params_tmp of iteration ii (0-based); metadata is
\* particle_data[0], whose lists the model indexes from 1.
CalParamsEntry(ii, metadata) ==
    [soundername |-> <<"config_header", "sounder_name">>,
     frequency |-> ConfigField("frequency", ii),
     soundvelocity |-> metadata["zplsc_sound_velocity"][ii + 1],
     sampleinterval |-> metadata["zplsc_sample_interval"][ii + 1],
     absorptioncoefficient |-> metadata["zplsc_absorption_coeff"][ii + 1],
     gain |-> ConfigField("gain", ii),
     equivalentbeamangle |-> ConfigField("equiv_beam_angle", ii),
     pulselengthtable |-> ConfigField("pulse_length_table", ii),
     gaintable |-> ConfigField("gain_table", ii),
     sacorrectiontable |-> ConfigField("sa_correction_table", ii),
     transmitpower |-> metadata["zplsc_transmit_power"][ii + 1],
     pulselength |-> metadata["zplsc_pulse_length"][ii + 1],
     anglesensitivityalongship |->
        ConfigField("angle_sensitivity_alongship", ii),
     anglesensitivityathwartship |->
        ConfigField("angle_sensitivity_athwartship", ii),
     anglesoffsetalongship |-> ConfigField("angle_offset_alongship", ii),
     angleoffsetathwartship |-> ConfigField("angle_offset_athwart", ii),
     transducerdepth |-> metadata["zplsc_transducer_depth"][ii + 1]]

\* get_cal_params(power_data_dict, particle_data, ...): a list indexed from
\* 0, one entry per key of power_data_dict.
GetCalParamsOf(pdd, pd) ==
    [ii \in 0..(Cardinality(DOMAIN pdd) - 1) |->
        CalParamsEntry(ii, pd.metadata)]

----------------------------------------------------------------------------
\* power2Sv (lines 474-543).

\* Line 512: the positions (from 0) of the entries of table equal to tau,
\* from position i - 1 on.
RECURSIVE IdxFrom(_, _, _)
IdxFrom(table, tau, i) ==
    IF i > Len(table) THEN <<>>
    ELSE (IF table[i] = tau THEN <<i - 1>> ELSE <<>>)
            \o IdxFrom(table, tau, i + 1)

\* numpy broadcasting of two lengths along one axis: they are equal or one
\* of them is 1; -1 for operands that cannot be broadcast together.
Broadcast(a, b) ==
    IF a = b THEN a ELSE IF a = 1 THEN b ELSE IF b = 1 THEN a ELSE -1

\* Line 507: the sample thickness dR = c*t/2.  Sound velocity and sample
\* interval are integers with an even product, so the division is exact.
SampleThickness(cal) == (cal.soundvelocity * cal.sampleinterval) \div 2

\* Lines 522-526 with a tvgCorrectionFactor of 1.
RangeCorrected_Factor1(k, dR) ==
    LET x == (k * dR) - (1 * dR)
    IN IF x < 0 THEN 0 ELSE x

\* Lines 522-526: element k (from 0) of rangeCorrected; range_vec[k] is
\* k * dR (line 522), tvgCorrectionFactor * dR is taken off (line 525) and
\* a negative difference is replaced by 0 (line 526).
RangeCorrected(k, dR) ==
    LET x == (k * dR) - (2 * dR)
    IN IF x < 0 THEN 0 ELSE x

\* Lines 529-531: the element of TVG for an element rc of rangeCorrected:
\* 20*log10(rc) where rc is not 0 and 0 where it is, both kept symbolic.
TVGOf(rc) == IF rc # 0 THEN <<"20*log10", rc>> ELSE <<"0">>

\* Lines 497-535 for one n: Sac has one element per entry of idx; power.T
\* of shape (P, R) is added to TVG and rangeCorrected of shape (R,) and Sac
\* is subtracted from the sum; the result is transposed and its first axis
\* reversed.  Rows and columns are counted from 1: row j of the result is
\* row rows + 1 - j of the sum.  An element records the power element, the
\* range index of TVG and rangeCorrected, the parameters and the position
\* in sacorrectiontable it was computed from, and the terms rangeCorrected,
\* TVG and 2*alpha*rangeCorrected of line 533 at that range index.
SvOf(power, cal) ==
    LET idx == IdxFrom(cal.pulselengthtable, cal.pulselength, 1)
        R == power.shape[1]
        P == power.shape[2]
        rows == Broadcast(R, Len(idx))
    IN IF rows = -1
       THEN [outcome |-> "ValueError"]
       ELSE [outcome |-> "ok", shape |-> <<rows, P>>,
             at |-> [j \in 1..rows |-> [p \in 1..P |->
                       LET r == rows + 1 - j
                           rp == IF R = 1 THEN 1 ELSE r
                           ri == IF Len(idx) = 1 THEN 1 ELSE r
                           rc == RangeCorrected(rp - 1, SampleThickness(cal))
                       IN [power |-> power.at[rp][p], range |-> rp,
                           cal |-> cal, Sac |-> idx[ri],
                           rangeCorrected |-> rc,
                           TVG |-> TVGOf(rc),
                           absorption |-> 2 * cal.absorptioncoefficient * rc]]]]

\* What iteration n of the loop at line 495 does: cal_params[n] may not
\* exist (line 497), power_data_dict[n+1] may not exist (line 516), the
\* operands of line 532 may not broadcast.
SvStep(pdd, cal, n) ==
    IF n \notin DOMAIN cal THEN [outcome |-> "IndexError"]
    ELSE IF (n + 1) \notin DOMAIN pdd THEN [outcome |-> "KeyError"]
    ELSE SvOf(pdd[n + 1], cal[n])

\* power2Sv(power_data_dict, cal_params): the dict Sv, or the exception of
\* the first iteration that raises.
Power2SvOf(pdd, cal) ==
    LET K == Cardinality(DOMAIN pdd)
        bad == {n \in 0..(K - 1) : SvStep(pdd, cal, n).outcome # "ok"}
    IN IF bad # {}
       THEN [called |-> TRUE,
             outcome |-> SvStep(pdd, cal,
                                CHOOSE n \in bad :
                                    \A m \in bad : n <= m).outcome,
             dict |-> <<>>]
       ELSE [called |-> TRUE, outcome |-> "ok",
             dict |-> [ch \in 1..K |-> SvStep(pdd, cal, ch - 1)]]

----------------------------------------------------------------------------
\* Files.

\* Bytes of a datagram with one power sample and no angles.
PlainLen == DgramLen(Cand(0, 1, 1, 1, 1, TRUE))

\* m candidates back to back from the start of the data, with the given
\* channels and times; candidate bad (if any) has a trailing length that
\* differs from its leading one.
PingFile(m, chans, times, bad) ==
    [len |-> m * PlainLen,
     cands |-> [i \in 1..m |->
                    Cand(LENGTH_SIZE + (i - 1) * PlainLen,
                         chans[i], times[i], 1, 1, i # bad)]]

\* One candidate c in a file with tail bytes after the end of its datagram
\* (before it when tail is negative: the file ends inside the datagram).
SingleFile(c, tail) ==
    [len |-> (c.sig - LENGTH_SIZE) + DgramLen(c) + tail, cands |-> << c >>]

\* A well-formed datagram of cnt samples and mode md on channel 1 at the
\* start of the data and a second signature at offset k: inside the first
\* datagram's arrays or trailing length, and then the file ends with the
\* first datagram, or as the signature of a second datagram right after it.
PairFile(cnt, md, k) ==
    LET first == Cand(LENGTH_SIZE, 1, 1, cnt, md, TRUE)
        second == Cand(k, 1, 2, 1, 1, TRUE)
    IN [len |-> IF k = WireLen(first) + LENGTH_SIZE
                THEN WireLen(first) + WireLen(second)
                ELSE WireLen(first),
        cands |-> <<first, second>>]

\* The second signature of PairFile(cnt, md, k) lies wholly in the file.
PairFileFits(cnt, md, k) ==
    LET first == Cand(LENGTH_SIZE, 1, 1, cnt, md, TRUE)
    IN \/ k = WireLen(first) + LENGTH_SIZE
       \/ k + SIGNATURE_SIZE <= WireLen(first)

----------------------------------------------------------------------------
\* parse_echogram_file (lines 346-441).

\* Lines 342, 349-367: the state at the call of parse_echogram_file, with
\* the values the scan loop starts from.
StartOf(src, N, f) ==
    /\ source = src
    /\ opened = FALSE
    /\ cal_params = NotCalled
    /\ Sv = NotCalled
    /\ transducer_count = N
    /\ file = f
    /\ pc = "start"
    /\ err = "none"
    /\ position = 0
    /\ last_time = NoTime
    /\ sample_data_temp_dict = <<>>
    /\ power_data_temp_dict = <<>>
    /\ power_data_dict = <<>>
    /\ data_times = <<>>
    /\ particle_data = NoParticle
    /\ frequencies = [ch \in 1..N |-> None]
    /\ bin_size = None
    /\ log = <<>>
    /\ blocks = <<>>
    /\ decoded = <<>>
    /\ pings = <<>>
    /\ result = <<>>

\* A file with the name and the configuration datagram the instrument
\* writes.
Start(N, f) == StartOf(GoodSource(N), N, f)

\* Times are only compared for equality (line 383), so the first candidate
\* of a file is given time 1.
FirstTimeIsOne(m, times) == IF m = 0 THEN TRUE ELSE times[1] = 1

\* The files of the model:
\*   up to MaxDgrams candidates, any channel in -1..N+1 and any time each;
\*   up to MaxDgrams datagrams on channels 1..N, one with mismatching lengths;
\*   one signature at any offset up to MaxOffset, on channel 1 or 2, followed
\*     by nothing or by MaxTail opaque bytes;
\*   one candidate of any shape in a file that ends anywhere from just after
\*     its signature to MaxTail bytes past its datagram;
\*   one datagram of any shape with a second signature inside its arrays or
\*     its trailing length, or with a second datagram right after it;
\*   one datagram in a file of any name made of an optional prefix, five
\*     tokens each as FILE_NAME_REGEX wants it or not, an optional suffix;
\*   one ping in a file whose configuration datagram has each length field
\*     right, one short or counting its own 4 bytes, and is whole or lacks
\*     its trailing length (and all that follows).
Init ==
    \/ \E N \in 1..MaxN, m \in 0..MaxDgrams :
         \E chans \in [1..m -> -1..(N + 1)], times \in [1..m -> 1..MaxTime] :
            /\ FirstTimeIsOne(m, times)
            /\ Start(N, PingFile(m, chans, times, 0))
    \/ \E N \in 1..MaxN, m \in 1..MaxDgrams :
         \E chans \in [1..m -> 1..N], times \in [1..m -> 1..MaxTime],
            bad \in 1..m :
            /\ FirstTimeIsOne(m, times)
            /\ Start(N, PingFile(m, chans, times, bad))
    \/ \E sig \in 0..MaxOffset, ch \in 1..2, tail \in {0, MaxTail} :
            Start(1, SingleFile(Cand(sig, ch, 1, 1, 1, TRUE), tail))
    \/ \E ch \in -1..2, cnt \in 0..MaxCount, md \in 1..2, ok \in BOOLEAN :
         \E tail \in (SIGNATURE_SIZE + LENGTH_SIZE
                        - DgramLen(Cand(0, ch, 1, cnt, md, ok)))..MaxTail :
            Start(1, SingleFile(Cand(LENGTH_SIZE, ch, 1, cnt, md, ok), tail))
    \/ \E cnt \in 0..MaxCount, md \in 1..2 :
         \E k \in SAMPLE_HEADER_SIZE..
                    (WireLen(Cand(0, 1, 1, cnt, md, TRUE)) + LENGTH_SIZE) :
            /\ PairFileFits(cnt, md, k)
            /\ Start(1, PairFile(cnt, md, k))
    \/ \E pre \in {<<>>, <<"c">>, <<"sp">>, <<"c", "sp">>, <<"sp", "c">>},
          t1 \in {"OOI-D", "x-D", "c"}, t2 \in {"d8", "d7"},
          t3 \in {"-T", "c"}, t4 \in {"d6", "d5"}, t5 \in {".raw", "xraw"},
          suf \in {<<>>, <<"c">>} :
            StartOf([GoodSource(1) EXCEPT
                        !.name = pre \o <<t1, t2, t3, t4, t5>> \o suf],
                    1, PingFile(1, <<1>>, <<1>>, 0))
    \/ \E N \in 1..MaxN, d1 \in {-1, 0, LENGTH_SIZE},
          d2 \in {-1, 0, LENGTH_SIZE}, cut \in {0, LENGTH_SIZE} :
            StartOf([GoodSource(N) EXCEPT
                        !.length1 = @ + d1, !.length2 = @ + d2,
                        !.cfg_bytes = @ - cut],
                    N,
                    PingFile(IF cut = 0 THEN N ELSE 0,
                             [i \in 1..N |-> i], [i \in 1..N |-> 1], 0))

\* Lines 342-344: the name carries no file time; extract_file_time raises
\* before open() is reached.
RejectFileName ==
    /\ pc = "start"
    /\ ~FileNameMatches(source.name)
    /\ pc' = "error"
    /\ err' = "InstrumentDataException"
    /\ UNCHANGED <<transducer_count, file, position, log, blocks, decoded,
                   pings, result>>
    /\ UNCHANGED aggVars
    /\ UNCHANGED outerVars

\* Lines 342-348: the file is opened and read_header raises.
ReadHeaderFails ==
    /\ pc = "start"
    /\ FileNameMatches(source.name)
    /\ ReadHeader(source, transducer_count) # "ok"
    /\ opened' = TRUE
    /\ pc' = "error"
    /\ err' = ReadHeader(source, transducer_count)
    /\ UNCHANGED <<transducer_count, file, position, log, blocks, decoded,
                   pings, result, source, cal_params, Sv>>
    /\ UNCHANGED aggVars

\* Lines 342-367: the file is opened, read_header returns, the stream is
\* left at the end of the configuration datagram and the first block is
\* read.
ReadHeaderOk ==
    /\ pc = "start"
    /\ FileNameMatches(source.name)
    /\ ReadHeader(source, transducer_count) = "ok"
    /\ opened' = TRUE
    /\ pc' = "scan"
    /\ UNCHANGED <<transducer_count, file, err, position, log, blocks,
                   decoded, pings, result, source, cal_params, Sv>>
    /\ UNCHANGED aggVars

\* The block searched in this iteration, for the history.
Block(hit) == [start |-> position, len |-> RawLen(position), hit |-> hit]

\* The call of process_sample of this iteration, for the history: the
\* candidate, the offset sought to, the outcome and the offset it left the
\* stream at.
Call(i, s) ==
    [cand |-> i, at |-> MatchStart(position, i), outcome |-> s.outcome,
     tell |-> s.tell]

\* Lines 369-371, 423-429: a block without the signature.
ScanMiss ==
    /\ pc = "scan"
    /\ LoopCond(position)
    /\ Search(position) = 0
    /\ position' = MissSeek(position)
    /\ blocks' = Append(blocks, Block(-1))
    /\ UNCHANGED <<transducer_count, file, pc, err, log, decoded, pings,
                   result>>
    /\ UNCHANGED aggVars
    /\ UNCHANGED outerVars

\* Lines 373-381, 420-429: the candidate is rejected by process_sample.
ScanSkip ==
    /\ pc = "scan"
    /\ LoopCond(position)
    /\ Search(position) # 0
    /\ LET i == Search(position)
           s == ProcessSample(position, i)
       IN /\ s.outcome = "InvalidTransducer"
          /\ position' = s.tell
          /\ log' = log \o s.warn
          /\ blocks' = Append(blocks, Block(file.cands[i].sig))
          /\ decoded' = Append(decoded, Call(i, s))
    /\ UNCHANGED <<transducer_count, file, pc, err, pings, result>>
    /\ UNCHANGED aggVars
    /\ UNCHANGED outerVars

\* Lines 373-381: process_sample runs off the end of the file; the
\* IndexError is not caught and leaves parse_echogram_file.
ScanIndexError ==
    /\ pc = "scan"
    /\ LoopCond(position)
    /\ Search(position) # 0
    /\ LET i == Search(position)
           s == ProcessSample(position, i)
       IN /\ s.outcome = "IndexError"
          /\ pc' = "error"
          /\ err' = "IndexError"
          /\ blocks' = Append(blocks, Block(file.cands[i].sig))
          /\ decoded' = Append(decoded, Call(i, s))
    /\ UNCHANGED <<transducer_count, file, position, log, pings, result>>
    /\ UNCHANGED aggVars
    /\ UNCHANGED outerVars

\* The assignments of lines 383-416 for the decoded sample s.
Aggregated(s) ==
    LET a == Aggregate(s)
    IN /\ last_time' = a.last_time
       /\ sample_data_temp_dict' = a.sample_data_temp_dict
       /\ power_data_temp_dict' = a.power_data_temp_dict
       /\ power_data_dict' = a.power_data_dict
       /\ data_times' = a.data_times
       /\ particle_data' = a.particle_data
       /\ frequencies' = a.frequencies
       /\ bin_size' = a.bin_size
       /\ pings' = IF a.complete
                   THEN Append(pings, [time |-> s.time,
                                       call |-> Len(decoded) + 1])
                   ELSE pings

\* Lines 373-416, 426-429: the candidate is decoded and aggregated.
ScanSample ==
    /\ pc = "scan"
    /\ LoopCond(position)
    /\ Search(position) # 0
    /\ LET i == Search(position)
           s == ProcessSample(position, i)
       IN /\ s.outcome = "ok"
          /\ ~Aggregate(s).keyerror
          /\ Aggregated(s)
          /\ position' = s.tell
          /\ log' = log \o s.warn
          /\ blocks' = Append(blocks, Block(file.cands[i].sig))
          /\ decoded' = Append(decoded, Call(i, s))
    /\ UNCHANGED <<transducer_count, file, pc, err, result>>
    /\ UNCHANGED outerVars

\* Lines 373-416: the candidate is decoded and completes a ping with a
\* channel power_data_dict has no list for; line 416 raises KeyError, which
\* is not caught.
ScanKeyError ==
    /\ pc = "scan"
    /\ LoopCond(position)
    /\ Search(position) # 0
    /\ LET i == Search(position)
           s == ProcessSample(position, i)
       IN /\ s.outcome = "ok"
          /\ Aggregate(s).keyerror
          /\ Aggregated(s)
          /\ pc' = "error"
          /\ err' = "KeyError"
          /\ log' = log \o s.warn
          /\ blocks' = Append(blocks, Block(file.cands[i].sig))
          /\ decoded' = Append(decoded, Call(i, s))
    /\ UNCHANGED <<transducer_count, file, position, result>>
    /\ UNCHANGED outerVars

\* Lines 369, 431-441: the loop ends and the outputs are returned.
Finish ==
    /\ pc = "scan"
    /\ ~LoopCond(position)
    /\ pc' = "done"
    /\ result' = Outputs
    /\ UNCHANGED <<transducer_count, file, err, position, log, blocks,
                   decoded, pings>>
    /\ UNCHANGED aggVars
    /\ UNCHANGED outerVars

\* get_cal_params on what parse_echogram_file returned.
GetCalParams ==
    /\ pc = "done"
    /\ ~cal_params.called
    /\ cal_params' =
          [called |-> TRUE,
           list |-> GetCalParamsOf(result.power_data_dict,
                                   result.particle_data)]
    /\ UNCHANGED <<transducer_count, file, pc, err, position, log, blocks,
                   decoded, pings, result, source, opened, Sv>>
    /\ UNCHANGED aggVars

Next ==
    \/ RejectFileName
    \/ ReadHeaderFails
    \/ ReadHeaderOk
    \/ ScanMiss
    \/ ScanSkip
    \/ ScanIndexError
    \/ ScanSample
    \/ ScanKeyError
    \/ Finish
    \/ GetCalParams

Spec == Init /\ [][Next]_vars

----------------------------------------------------------------------------
\* power2Sv as a function of its arguments.

\* A pulse length table as the instrument writes it: distinct entries.
PulseLengthTable == [i \in 1..MaxTau |-> i]

\* The entry of cal_params for index n (from 0) with pulse length tau,
\* sound velocity c, sample interval t and absorption coefficient alpha.
SvCalParamsOf(n, tau, c, t, alpha) ==
    [frequency |-> ConfigField("frequency", n),
     soundvelocity |-> c,
     sampleinterval |-> t,
     absorptioncoefficient |-> alpha,
     gain |-> ConfigField("gain", n),
     equivalentbeamangle |-> ConfigField("equiv_beam_angle", n),
     transmitpower |-> <<"zplsc_transmit_power", n>>,
     pulselength |-> tau,
     pulselengthtable |-> PulseLengthTable,
     sacorrectiontable |-> ConfigField("sa_correction_table", n)]

\* The entry for index n in water: a sample thickness of 1.
SvCalParams(n, tau) == SvCalParamsOf(n, tau, 1, 2, 1)

\* The matrix parse_echogram_file returns for a channel with P pings of R
\* samples each.
SvPower(ch, R, P) ==
    PowerMatrix([p \in 1..P |-> [src |-> <<ch, p>>, n |-> R]])

\* The state in which power2Sv is called for K channels keyed from first,
\* with P pings of R[ch] range samples for channel ch and the list cals as
\* cal_params.
StartSv(K, first, P, R, cals) ==
        /\ source = GoodSource(K)
        /\ opened = TRUE
        /\ transducer_count = K
        /\ file = PingFile(0, <<>>, <<>>, 0)
        /\ pc = "done"
        /\ err = "none"
        /\ position = 0
        /\ last_time = NoTime
        /\ sample_data_temp_dict = <<>>
        /\ power_data_temp_dict = <<>>
        /\ power_data_dict = <<>>
        /\ data_times = <<>>
        /\ particle_data = NoParticle
        /\ frequencies = [ch \in 1..K |-> None]
        /\ bin_size = None
        /\ log = <<>>
        /\ blocks = <<>>
        /\ decoded = <<>>
        /\ pings = <<>>
        /\ result =
              [particle_data |-> NoParticle,
               data_times |-> <<>>,
               power_data_dict |->
                  [ch \in first..(first + K - 1) |-> SvPower(ch, R[ch], P)],
               frequencies |-> [ch \in 1..K |-> None],
               bin_size |-> None]
        /\ cal_params =
              [called |-> TRUE,
               list |-> cals]
        /\ Sv = NotCalled

\* The arguments: power matrices for K channels keyed from 1 (from 0 when
\* parse_echogram_file accepted channel 0 and saw no channel K), each of
\* 0..MaxCount range samples, 1..MaxPings pings, and one entry of
\* cal_params per channel with any pulse length, in the table or not; or
\* one channel of 0..MaxRange range samples whose first ping carried any
\* sound velocity, a sample interval of 0 or 2 and any absorption
\* coefficient.
InitSv ==
    \/ \E K \in 0..MaxN, first \in 0..1, P \in 1..MaxPings :
         \E R \in [first..(first + K - 1) -> 0..MaxCount],
            tau \in [0..(K - 1) -> 0..MaxTau] :
            StartSv(K, first, P, R,
                    [n \in 0..(K - 1) |-> SvCalParams(n, tau[n])])
    \/ \E R \in 0..MaxRange, c \in (-1)..MaxSpeed, t \in {0, 2},
          alpha \in 0..MaxAlpha :
            StartSv(1, 1, 1, [ch \in {1} |-> R],
                    [n \in {0} |-> SvCalParamsOf(n, 1, c, t, alpha)])

\* Lines 494-543: every iteration succeeds and Sv is returned.
Power2SvReturns ==
    /\ pc = "done"
    /\ ~Sv.called
    /\ Power2SvOf(result.power_data_dict, cal_params.list).outcome = "ok"
    /\ Sv' = Power2SvOf(result.power_data_dict, cal_params.list)
    /\ UNCHANGED <<transducer_count, file, pc, err, position, log, blocks,
                   decoded, pings, result, source, opened, cal_params>>
    /\ UNCHANGED aggVars

\* Lines 494-535: an iteration raises.
Power2SvRaises ==
    /\ pc = "done"
    /\ ~Sv.called
    /\ Power2SvOf(result.power_data_dict, cal_params.list).outcome # "ok"
    /\ Sv' = Power2SvOf(result.power_data_dict, cal_params.list)
    /\ UNCHANGED <<transducer_count, file, pc, err, position, log, blocks,
                   decoded, pings, result, source, opened, cal_params>>
    /\ UNCHANGED aggVars

NextSv ==
    \/ Power2SvReturns
    \/ Power2SvRaises

SvSpec == InitSv /\ [][NextSv]_vars

----------------------------------------------------------------------------
\* Vocabulary of the properties.

\* The candidate process_sample examined in its j-th call.
CandOf(j) == file.cands[decoded[j].cand]

\* The calls that returned a sample.
Accepted == {j \in 1..Len(decoded) : decoded[j].outcome = "ok"}

\* Accepted calls a <= b belong to one ping of the input: no sample accepted
\* from a to b carries another time.
SameRun(a, b) ==
    \A j \in Accepted : (a <= j /\ j <= b) => CandOf(j).time = CandOf(a).time

\* The channels of the samples of the ping of accepted call j, up to j.
RunChannels(j) ==
    {CandOf(k).channel : k \in {k \in Accepted : k <= j /\ SameRun(k, j)}}

\* The transducers of the configuration.
Channels == 1..transducer_count

\* The file passes the name check and read_header.
HeaderRead ==
    /\ FileNameMatches(source.name)
    /\ ReadHeader(source, transducer_count) = "ok"

----------------------------------------------------------------------------
\* C1: a ping is found complete exactly once: no two PingComplete events
\* come from samples of one timestamp with no sample of another timestamp
\* between them, so a further datagram carrying the timestamp of a ping
\* already complete adds no second time-series entry.
C1_PingCompleteOnce ==
    \A p, q \in 1..Len(pings) :
        p < q => ~SameRun(pings[p].call, pings[q].call)

\* C2: a ping is found complete only when the samples seen at its time, since
\* the last sample of another time, cover every channel 1..N; a ping that
\* does not cover them yields no PingComplete.
C2_IncompletePingDropped ==
    \A p \in 1..Len(pings) : Channels \subseteq RunChannels(pings[p].call)

\* C3: a candidate whose decoded channel is below 0 or above
\* transducer_count is rejected by InvalidTransducer, the loop goes on, and
\* last_time, the in-progress maps, Metadata, the time series and the power
\* columns are what they were before the candidate was examined.
C3_RejectedCandidateKeepsState ==
    [][ (/\ Len(decoded') = Len(decoded) + 1
         /\ LET j == Len(decoded')
                c == file.cands[decoded'[j].cand]
            IN /\ decoded'[j].at + SAMPLE_HEADER_SIZE <= file.len
               /\ (c.channel < 0 \/ c.channel > transducer_count))
        => (/\ decoded'[Len(decoded')].outcome = "InvalidTransducer"
            /\ pc' = "scan"
            /\ UNCHANGED aggVars
            /\ pings' = pings) ]_vars

\* C3 happens: after a sample was accepted and a ping completed, candidates
\* of channel -1 and of channel transducer_count + 1 were rejected and the
\* scan returned.
C3_Witness ==
    /\ pc = "done"
    /\ data_times # <<>>
    /\ \E j \in 2..Len(decoded) :
        /\ decoded[j].outcome = "InvalidTransducer"
        /\ CandOf(j).channel > transducer_count
        /\ 1 \in Accepted
    /\ \E j \in 2..Len(decoded) :
        /\ decoded[j].outcome = "InvalidTransducer"
        /\ CandOf(j).channel < 0

\* C4: once the header is read, nothing in the rest of the stream makes
\* parse_echogram_file raise: the scan runs to the end of the stream.
C4_ScanNeverAborts == HeaderRead => pc # "error"

----------------------------------------------------------------------------
\* The stream holds exactly one signature, that of a well-formed sample
\* datagram lying wholly in the file at an offset k >= 0.
OneWellFormedDatagram ==
    /\ Len(file.cands) = 1
    /\ LET c == file.cands[1]
       IN /\ c.sig >= LENGTH_SIZE
          /\ c.channel \in Channels
          /\ c.lenok
          /\ (c.sig - LENGTH_SIZE) + DgramLen(c) <= file.len

\* C5: a stream with exactly one well-formed sample datagram, at any offset
\* and alignment, has that datagram decoded exactly once, from the offset of
\* its length prefix (block start + p - 4 for a signature at block position
\* p); nothing else is decoded, the scan does not fail, it does not pass
\* the signature before decoding it, and it ends with the stream exhausted.
C5_SingleDatagramDecodedOnce ==
    (OneWellFormedDatagram /\ HeaderRead) =>
        /\ pc # "error"
        /\ Len(decoded) <= 1
        /\ \A j \in 1..Len(decoded) :
            /\ decoded[j].cand = 1
            /\ decoded[j].outcome = "ok"
            /\ decoded[j].at = file.cands[1].sig - 4
            /\ \E b \in 1..Len(blocks) :
                /\ blocks[b].hit = file.cands[1].sig
                /\ decoded[j].at
                     = blocks[b].start + (blocks[b].hit - blocks[b].start) - 4
        /\ (pc = "scan" /\ decoded = <<>>) => position <= file.cands[1].sig
        /\ (pc = "done" => Len(decoded) = 1 /\ file.len - position <= 4)

\* C5 happens: the one datagram's signature straddled the end of a block
\* that was searched without a match, it was decoded, opaque bytes after it
\* were searched and the scan returned.
C5_Witness ==
    /\ OneWellFormedDatagram
    /\ pc = "done"
    /\ Len(decoded) = 1
    /\ decoded[1].tell < file.len
    /\ Len(blocks) >= 3
    /\ \E b \in 1..Len(blocks) :
        /\ blocks[b].hit = -1
        /\ file.cands[1].sig < blocks[b].start + BLOCK_SIZE
        /\ blocks[b].start + BLOCK_SIZE < file.cands[1].sig + SIGNATURE_SIZE

\* Signature i straddles the end of searched block b.
Straddles(i, b) ==
    LET s == file.cands[i].sig
        e == blocks[b].start + blocks[b].len
    IN /\ blocks[b].start <= s
       /\ s < e
       /\ e < s + SIGNATURE_SIZE
       /\ s + SIGNATURE_SIZE <= file.len

C7_MetadataWrittenOnce ==
    [][ /\ particle_data.set
            => UNCHANGED <<particle_data, frequencies, bin_size>>
        /\ ~particle_data'.set
            => /\ UNCHANGED <<frequencies, bin_size>>
               /\ data_times' = <<>>
        /\ (~particle_data.set /\ particle_data'.set)
            => /\ data_times = <<>>
               /\ data_times' = <<particle_data'.time>>
               /\ Len(pings') = 1 ]_vars

\* C7 happens: Metadata was captured, and afterwards another ping of another
\* time completed and a candidate was skipped.
C7_Witness ==
    /\ pc = "done"
    /\ particle_data.set
    /\ Len(data_times) >= 2
    /\ particle_data.time = data_times[1]
    /\ data_times[2] # data_times[1]
    /\ \E j \in 1..Len(decoded) :
        decoded[j].outcome = "InvalidTransducer" /\ j > pings[1].call

\* C8: every field of the Metadata captured at the first PingComplete is an
\* array of length transducer_count, in channel order 1, 2, .., N.
C8_MetadataInChannelOrder ==
    particle_data.set =>
        /\ \A k \in DOMAIN particle_data.metadata :
            Len(particle_data.metadata[k]) = transducer_count
        /\ particle_data.metadata["zplsc_channel"]
             = [j \in 1..transducer_count |-> j]

\* C9: every channel that enters a ping, every entry of the Metadata channel
\* list and every key of the power output lies in 1..transducer_count.
C9_ChannelsOneBased ==
    /\ DOMAIN sample_data_temp_dict \subseteq Channels
    /\ DOMAIN power_data_temp_dict \subseteq Channels
    /\ DOMAIN power_data_dict \subseteq Channels
    /\ DOMAIN frequencies \subseteq Channels
    /\ particle_data.set =>
        \A j \in 1..Len(particle_data.metadata["zplsc_channel"]) :
            particle_data.metadata["zplsc_channel"][j] \in Channels

\* C10: a sample datagram whose trailing length differs from its leading one
\* is still decoded: a warning is logged, and its channel, time, header and
\* power array enter the ping aggregation as those of any sample do (the
\* maps are restarted on a new time, the sample is stored under its channel,
\* and the ping is appended when the map holds transducer_count channels).
C10_LengthMismatchOnlyWarns ==
    [][ (/\ Len(decoded') = Len(decoded) + 1
         /\ LET j == Len(decoded')
                c == file.cands[decoded'[j].cand]
            IN /\ ~c.lenok
               /\ c.channel \in 0..transducer_count
               /\ decoded'[j].at + DgramLen(c) <= file.len)
        => LET j == Len(decoded')
               i == decoded'[j].cand
               c == file.cands[i]
               kept == IF c.time = last_time
                       THEN DOMAIN sample_data_temp_dict ELSE {}
           IN /\ decoded'[j].outcome = "ok"
              /\ log' = Append(log, <<"length", i>>)
              /\ err' # "IndexError"
              /\ last_time' = c.time
              /\ DOMAIN sample_data_temp_dict' = kept \cup {c.channel}
              /\ DOMAIN power_data_temp_dict' = kept \cup {c.channel}
              /\ sample_data_temp_dict'[c.channel] = i
              /\ power_data_temp_dict'[c.channel] = [src |-> i, n |-> c.count]
              /\ IF Cardinality(kept \cup {c.channel}) = transducer_count
                 THEN /\ data_times' = Append(data_times, c.time)
                      /\ pc' = "scan" =>
                            power_data_dict'[c.channel][Len(data_times')]
                                = [src |-> i, n |-> c.count]
                 ELSE /\ data_times' = data_times
                      /\ power_data_dict' = power_data_dict ]_vars

\* C10 happens: with two transducers, a sample with mismatching lengths was
\* accepted and completed a ping, and the scan returned.
C10_Witness ==
    /\ pc = "done"
    /\ transducer_count >= 2
    /\ \E p \in 1..Len(pings) :
        /\ ~CandOf(pings[p].call).lenok
        /\ <<"length", decoded[pings[p].call].cand>>
             \in {log[x] : x \in 1..Len(log)}

----------------------------------------------------------------------------
\* Nothing was scanned and nothing is handed back: no block searched, no
\* candidate decoded, no Metadata, no time, no power column, no tuple
\* returned.
NoOutput ==
    /\ blocks = <<>>
    /\ decoded = <<>>
    /\ particle_data = NoParticle
    /\ data_times = <<>>
    /\ power_data_dict = <<>>
    /\ result = <<>>

\* C11: when the leading length, the trailing length and the bytes consumed
\* for the header and the transducer blocks of the configuration datagram
\* are not all equal, read_header raises InstrumentDataException: the scan
\* never starts and the file yields no Metadata, no times and no power
\* matrices.
C11_ConfigFramingMismatchFatal ==
    (/\ FileNameMatches(source.name)
     /\ source.cfg_bytes = ByteCnt(transducer_count) + LENGTH_SIZE
     /\ ~(/\ source.length1 = source.length2
          /\ source.length1 = ByteCnt(transducer_count) - LENGTH_SIZE))
    => /\ pc \in {"start", "error"}
       /\ pc = "error" => (opened /\ err = "InstrumentDataException")
       /\ NoOutput

\* C11 happens: the two length fields of the configuration datagram agree
\* with each other and not with the bytes consumed, read_header raised, and
\* the datagrams that follow were not scanned.
C11_Witness ==
    /\ pc = "error"
    /\ opened
    /\ err = "InstrumentDataException"
    /\ source.length1 = source.length2
    /\ source.length1 # ByteCnt(transducer_count) - LENGTH_SIZE
    /\ Len(file.cands) = transducer_count
    /\ NoOutput

\* The outputs of a file without a complete ping: particle_data is None,
\* the time series is empty, no channel has a power matrix, every frequency
\* is unset, there is no bin size, and get_cal_params returns an empty list.
EmptyOutputs ==
    /\ result.particle_data = NoParticle
    /\ result.data_times = <<>>
    /\ result.power_data_dict = <<>>
    /\ \A ch \in Channels : result.frequencies[ch] = None
    /\ result.bin_size = None
    /\ cal_params.called => cal_params.list = <<>>

\* C12: a file whose scan accumulates no complete ping ends normally, with
\* empty outputs: once parse_echogram_file has ended without a complete
\* ping, it has returned (not raised), Metadata is None, the time series is
\* empty, no channel has a power matrix, every frequency is unset, there is
\* no bin size, and get_cal_params on these outputs is empty.
C12_NoPingEmptyOutputs ==
    (HeaderRead /\ pings = <<>> /\ pc \in {"done", "error"})
        => (pc = "done" /\ EmptyOutputs)

----------------------------------------------------------------------------
\* No entry of the pulse length table of cal_params[n] equals its pulse
\* length.
NoPulseLengthMatch(n) ==
    LET cal == cal_params.list[n]
    IN \A i \in 1..Len(cal.pulselengthtable) :
          cal.pulselengthtable[i] # cal.pulselength

\* C13: when no entry of a channel's pulse length table equals the
\* channel's pulse length, power2Sv raises: it returns no Sv computed with
\* an empty or substituted Sa correction.
C13_NoPulseLengthMatchFails ==
    (Sv.called /\ Sv.outcome = "ok")
        => \A n \in DOMAIN cal_params.list : ~NoPulseLengthMatch(n)

----------------------------------------------------------------------------
\* Entry ii of cal_params takes its gain, beam angle, tables and angle
\* sensitivities and offsets from transducer block ii of the configuration.
FromConfig(ii) ==
    LET c == cal_params.list[ii]
    IN /\ c.gain = ConfigField("gain", ii)
       /\ c.equivalentbeamangle = ConfigField("equiv_beam_angle", ii)
       /\ c.pulselengthtable = ConfigField("pulse_length_table", ii)
       /\ c.gaintable = ConfigField("gain_table", ii)
       /\ c.sacorrectiontable = ConfigField("sa_correction_table", ii)
       /\ c.anglesensitivityalongship
            = ConfigField("angle_sensitivity_alongship", ii)
       /\ c.anglesensitivityathwartship
            = ConfigField("angle_sensitivity_athwartship", ii)
       /\ c.anglesoffsetalongship = ConfigField("angle_offset_alongship", ii)
       /\ c.angleoffsetathwartship = ConfigField("angle_offset_athwart", ii)

\* Entry ii of cal_params takes its sound velocity, sample interval,
\* absorption coefficient, transmit power, pulse length and transducer depth
\* from position ii of the lists of the first-ping Metadata.
FromFirstPing(ii) ==
    LET c == cal_params.list[ii]
        m == result.particle_data.metadata
    IN /\ c.soundvelocity = m["zplsc_sound_velocity"][ii + 1]
       /\ c.sampleinterval = m["zplsc_sample_interval"][ii + 1]
       /\ c.absorptioncoefficient = m["zplsc_absorption_coeff"][ii + 1]
       /\ c.transmitpower = m["zplsc_transmit_power"][ii + 1]
       /\ c.pulselength = m["zplsc_pulse_length"][ii + 1]
       /\ c.transducerdepth = m["zplsc_transducer_depth"][ii + 1]

\* C14 as stated: every entry of cal_params takes gain, beam angle, the
\* three tables and the angle sensitivities and offsets from the
\* configuration transducer block, and frequency, sound velocity, sample
\* interval, absorption coefficient, transmit power, pulse length and
\* transducer depth from the first-ping Metadata.
C14_FrequencyFromFirstPing ==
    cal_params.called =>
        \A ii \in DOMAIN cal_params.list :
            /\ FromConfig(ii)
            /\ FromFirstPing(ii)
            /\ cal_params.list[ii].frequency
                 = result.particle_data.metadata["zplsc_frequency"][ii + 1]

\* C14: every entry of cal_params takes gain, beam angle, the three tables,
\* the angle sensitivities and offsets and also the frequency from the
\* configuration transducer block, and sound velocity, sample interval,
\* absorption coefficient, transmit power, pulse length and transducer depth
\* from the first-ping Metadata.
C14_CalParamsSources ==
    cal_params.called =>
        \A ii \in DOMAIN cal_params.list :
            /\ FromConfig(ii)
            /\ FromFirstPing(ii)
            /\ cal_params.list[ii].frequency = ConfigField("frequency", ii)

\* C14 happens: get_cal_params ran on the outputs of a file with two
\* transducers and a complete ping.
C14_Witness ==
    /\ cal_params.called
    /\ transducer_count >= 2
    /\ DOMAIN cal_params.list = 0..(transducer_count - 1)
    /\ result.particle_data.set

----------------------------------------------------------------------------
\* The first-ping values of entry n of cal_params were decoded from the
\* datagram of candidate i.
DecodedFrom(n, i) ==
    LET c == cal_params.list[n]
    IN /\ c.soundvelocity = SampleField("zplsc_sound_velocity", i)
       /\ c.sampleinterval = SampleField("zplsc_sample_interval", i)
       /\ c.absorptioncoefficient = SampleField("zplsc_absorption_coeff", i)
       /\ c.transmitpower = SampleField("zplsc_transmit_power", i)
       /\ c.pulselength = SampleField("zplsc_pulse_length", i)
       /\ c.transducerdepth = SampleField("zplsc_transducer_depth", i)

\* C15: for every n from 0, cal_params[n] combines config_transducer[n]
\* with the first-ping values decoded from a datagram of channel n + 1, and
\* the power matrix power2Sv pairs with cal_params[n], the one keyed n + 1,
\* exists.
C15_ChannelIndexingConsistent ==
    cal_params.called =>
        \A n \in DOMAIN cal_params.list :
            /\ FromConfig(n)
            /\ \E i \in 1..Len(file.cands) :
                  file.cands[i].channel = n + 1 /\ DecodedFrom(n, i)
            /\ (n + 1) \in DOMAIN result.power_data_dict

----------------------------------------------------------------------------
\* C16: for every channel, the Sv matrix power2Sv returns has the shape
\* (R range samples, pings) of the channel's power matrix, and its range
\* axis is reversed: counting rows from 1, row j of Sv is computed from row
\* R + 1 - j of the power matrix with the TVG and absorption terms of that
\* range index, for every ping.
C16_SvShapeAndReversal ==
    (Sv.called /\ Sv.outcome = "ok") =>
        \A ch \in DOMAIN Sv.dict :
            LET power == result.power_data_dict[ch]
                R == power.shape[1]
            IN /\ Sv.dict[ch].shape = power.shape
               /\ \A j \in 1..R, p \in 1..power.shape[2] :
                    /\ Sv.dict[ch].at[j][p].power = power.at[R + 1 - j][p]
                    /\ Sv.dict[ch].at[j][p].range = R + 1 - j

----------------------------------------------------------------------------
\* C17 as stated: the scan stops only when fewer than 4 bytes remain unread
\* at the start of a scan step.
C17_EndsBelowFourBytes ==
    pc = "done" => file.len - position < 4

\* C17: the scan ends exactly when at most 4 bytes remain unread: at the
\* start of a scan step with 5 or more unread bytes the block at the
\* recorded position is searched and the function does not return in that
\* step; with 4 or fewer the loop is left without searching and the
\* function returns.
C17_EndsAtFourBytes ==
    [][ pc = "scan" =>
          IF file.len - position > 4
          THEN /\ Len(blocks') = Len(blocks) + 1
               /\ blocks'[Len(blocks')].start = position
               /\ blocks'[Len(blocks')].len
                    = Min(BLOCK_SIZE, file.len - position)
               /\ pc' # "done"
          ELSE /\ pc' = "done"
               /\ blocks' = blocks ]_vars

\* C17 happens: a datagram was decoded, exactly 4 bytes were left after it,
\* and the scan returned without searching them.
C17_Witness ==
    /\ pc = "done"
    /\ decoded # <<>>
    /\ file.len - position = 4
    /\ blocks[Len(blocks)].start < position

\* The path holds -D, 8 digits, -T, 6 digits and .raw in a row.
HasTimestamp(name) ==
    \E k \in 1..Len(name) :
        /\ name[k] \in {"OOI-D", "x-D"}
        /\ TokensAt(name, k + 1, <<"d8", "-T", "d6", ".raw">>)

\* C18: when the file name does not hold ...-D{8 digits}-T{6 digits}.raw,
\* parse_echogram_file raises InstrumentDataException before the file is
\* opened: no header is read, no datagram is scanned, nothing is returned.
C18_BadFileNameFatal ==
    ~HasTimestamp(source.name) =>
        /\ pc \in {"start", "error"}
        /\ pc = "error" => err = "InstrumentDataException"
        /\ ~opened
        /\ NoOutput

\* C18 happens: a name with the date and without the 6 digits of the time
\* was rejected, with a well-formed file behind it.
C18_Witness ==
    /\ pc = "error"
    /\ ~opened
    /\ ~HasTimestamp(source.name)
    /\ \E k \in 1..Len(source.name) :
          TokensAt(source.name, k, <<"OOI-D", "d8", "-T", "d5", ".raw">>)
    /\ ReadHeader(source, transducer_count) = "ok"
    /\ file.cands # <<>>

----------------------------------------------------------------------------
\* C19: every iteration of the scan loop that completes (a miss, a decode
\* or a skipped candidate) leaves the recorded position strictly greater
\* than it found it and below the end of the file plus one block; no
\* candidate, rejected or not, is handed to process_sample twice.  The
\* position being an integer bounded by the length of the file, the scan of
\* a finite file ends.
C19_PositionAdvances ==
    [][ (pc = "scan" /\ pc' = "scan") =>
          /\ Len(blocks') = Len(blocks) + 1
          /\ position' > position
          /\ position' < file.len + BLOCK_SIZE
          /\ \A j \in 1..Len(decoded) :
                Len(decoded') > Len(decoded)
                    => decoded'[Len(decoded')].cand # decoded[j].cand ]_vars

\* C19 happens: a block was searched without a match, a false positive
\* was rejected, the bytes after it were searched and the scan returned.
C19_Witness ==
    /\ pc = "done"
    /\ \E b \in 1..Len(blocks) : blocks[b].hit = -1
    /\ \E j \in 1..Len(decoded) :
        /\ decoded[j].outcome = "InvalidTransducer"
        /\ blocks[Len(blocks)].start = decoded[j].tell

\* C20: after a successful decode at offset o of a datagram with count c
\* and mode m the next block starts right after the datagram's trailing
\* length: at o + 88 + 2c + 4 when m <= 1, at o + 88 + 2c + 2c + 4 when
\* m > 1.  So a well-formed datagram, with angle data or without, raises
\* no length warning; a sample datagram that follows directly is the next
\* one decoded, from the offset the decode ended at; and no block starts
\* and no signature is matched inside the arrays or the trailing length of
\* a decoded datagram.
C20_NextBlockAfterTrailer ==
    /\ [][ (/\ Len(decoded') = Len(decoded) + 1
            /\ decoded'[Len(decoded')].outcome = "ok")
           => LET call == decoded'[Len(decoded')]
                  c == file.cands[call.cand]
              IN /\ call.tell
                      = call.at + 88 + 2 * c.count
                          + (IF c.mode > 1 THEN 2 * c.count ELSE 0) + 4
                 /\ pc' = "scan" => position' = call.tell
                 /\ c.lenok => log' = log ]_vars
    /\ [](\A j \in Accepted :
            /\ \A i \in 1..Len(file.cands) :
                (/\ file.cands[i].sig = decoded[j].tell + LENGTH_SIZE
                 /\ file.cands[i].sig + SIGNATURE_SIZE <= file.len)
                => IF j < Len(decoded)
                   THEN /\ decoded[j + 1].cand = i
                        /\ decoded[j + 1].at = decoded[j].tell
                   ELSE pc # "done"
            /\ \A b \in 1..Len(blocks) :
                /\ ~(/\ decoded[j].at + SAMPLE_HEADER_SIZE <= blocks[b].start
                     /\ blocks[b].start < decoded[j].tell)
                /\ ~(/\ decoded[j].at + SAMPLE_HEADER_SIZE <= blocks[b].hit
                     /\ blocks[b].hit < decoded[j].tell))

\* C20 happens: a well-formed datagram with angle data was decoded without
\* a warning, the datagram right after it was decoded next, and the scan
\* returned.
C20_Witness ==
    /\ pc = "done"
    /\ Len(decoded) = 2
    /\ Accepted = {1, 2}
    /\ CandOf(1).mode > 1
    /\ CandOf(1).count = MaxCount
    /\ decoded[2].at = decoded[1].tell
    /\ log = <<>>

\* C20 happens as well: a signature lay inside the angle array of a decoded
\* datagram and was never matched.
C20_EmbeddedSkipped ==
    /\ pc = "done"
    /\ Len(decoded) = 1
    /\ Len(file.cands) = 2
    /\ file.cands[2].sig + SIGNATURE_SIZE <= decoded[1].tell

----------------------------------------------------------------------------
\* C21: at every boundary of a scan-loop iteration the channels that own a
\* power list are none, as long as no ping was found complete, or the ones
\* they were after the first complete ping; each of them holds as many
\* power columns as the time series has entries, and column i of channel ch
\* is the power array of a datagram of channel ch whose time is entry i of
\* the time series.
C21_PowerColumnsMatchTimes ==
    /\ [](pc \in {"scan", "done"} =>
            /\ (DOMAIN power_data_dict = {}) = (pings = <<>>)
            /\ Len(data_times) = Len(pings)
            /\ \A ch \in DOMAIN power_data_dict :
                /\ Len(power_data_dict[ch]) = Len(data_times)
                /\ \A i \in 1..Len(data_times) :
                    LET col == power_data_dict[ch][i]
                    IN /\ file.cands[col.src].time = data_times[i]
                       /\ file.cands[col.src].channel = ch
                       /\ col.n = file.cands[col.src].count)
    /\ [][ (pc' = "scan" /\ DOMAIN power_data_dict # {})
            => DOMAIN power_data_dict' = DOMAIN power_data_dict ]_vars

\* C21 happens: with two transducers two pings were found complete, both
\* channels hold two columns, and the scan returned.
C21_Witness ==
    /\ pc = "done"
    /\ transducer_count = 2
    /\ Len(data_times) = 2
    /\ DOMAIN power_data_dict = {1, 2}
    /\ Len(power_data_dict[1]) = 2
    /\ power_data_dict[1][1].src # power_data_dict[1][2].src

----------------------------------------------------------------------------
\* The elements of the Sv matrices power2Sv returned.
SvElements ==
    IF Sv.called /\ Sv.outcome = "ok"
    THEN UNION {UNION {{Sv.dict[ch].at[j][p] :
                            p \in DOMAIN Sv.dict[ch].at[j]} :
                        j \in DOMAIN Sv.dict[ch].at} :
                ch \in DOMAIN Sv.dict}
    ELSE {}

\* C22 as stated: at range index k (from 0) the TVG-corrected range is
\* max(0, (k - 2)*dR); for k in {0, 1, 2} it and the TVG term are 0 and Sv
\* is power - CSv - Sac, for k >= 3 the TVG term is 20*log10 of it and the
\* absorption term is 2*alpha times it.
C22_TvgRange ==
    \A e \in SvElements :
        LET k == e.range - 1
            dR == SampleThickness(e.cal)
        IN /\ e.rangeCorrected = Max(0, (k - 2) * dR)
           /\ k \in {0, 1, 2} =>
                /\ e.rangeCorrected = 0
                /\ e.TVG = <<"0">>
                /\ e.absorption = 0
           /\ k >= 3 =>
                /\ e.TVG = <<"20*log10", e.rangeCorrected>>
                /\ e.absorption
                     = 2 * e.cal.absorptioncoefficient * e.rangeCorrected

\* C22: at range index k (from 0) the TVG-corrected range is
\* max(0, (k - 2)*dR), the TVG term is 0 where it is 0 and 20*log10 of it
\* elsewhere (never a logarithm of zero or of a negative range), and the
\* absorption term is 2*alpha times it; when the sample thickness dR is
\* positive, for k in {0, 1, 2} the corrected range, the TVG term and the
\* absorption term are 0, so Sv is power - CSv - Sac, and for k >= 3 the
\* corrected range is positive and the TVG term is 20*log10 of it.
C22_TvgRangePositiveThickness ==
    \A e \in SvElements :
        LET k == e.range - 1
            dR == SampleThickness(e.cal)
        IN /\ e.rangeCorrected = Max(0, (k - 2) * dR)
           /\ e.rangeCorrected >= 0
           /\ e.TVG = (IF e.rangeCorrected = 0 THEN <<"0">>
                       ELSE <<"20*log10", e.rangeCorrected>>)
           /\ e.absorption
                = 2 * e.cal.absorptioncoefficient * e.rangeCorrected
           /\ dR > 0 =>
                /\ k \in {0, 1, 2} =>
                     /\ e.rangeCorrected = 0
                     /\ e.TVG = <<"0">>
                     /\ e.absorption = 0
                /\ k >= 3 =>
                     /\ e.rangeCorrected > 0
                     /\ e.TVG = <<"20*log10", e.rangeCorrected>>

\* power2Sv returned a matrix of four or more range samples computed with
\* a sample thickness of 2 and a non-zero absorption coefficient.
C22_Witness ==
    \E e \in SvElements :
        /\ e.range - 1 >= 3
        /\ SampleThickness(e.cal) = 2
        /\ e.cal.absorptioncoefficient = 1
        /\ e.rangeCorrected = 2
        /\ \E z \in SvElements : z.cal = e.cal /\ z.range - 1 = 2

====
